---- MODULE Spec2Model ----
(***************************************************************************)
(* Uptime monitor backend (server.js and its sibling versions).            *)
(*                                                                         *)
(* The model follows the monitoring loop checkMonitors, the shared         *)
(* transition helper updateMonitorStatus, the dispatcher sendAlert and the *)
(* monitor CRUD routes.  One step of the model is one stretch of           *)
(* synchronous JavaScript between two awaits: the event loop can run       *)
(* another handler (a DELETE request, the passing of time) only at an      *)
(* await, so everything between two awaits is one atomic action.           *)
(*                                                                         *)
(* Time is counted in minutes.  `now` is what `new Date()` returns.        *)
(***************************************************************************)
EXTENDS Integers, Sequences, FiniteSets, TLC

VARIABLES
    version,      \* which server.js is deployed (see Versions)
    exists,       \* ids of the Monitor documents present in the collection
    store,        \* the persisted Monitor documents, by id
    subscribers,  \* the Subscriber collection: addresses in insertion order
    now,          \* wall clock, minutes
    timerDue,     \* setInterval has fired and its callback has not started yet
    pc,           \* where the running checkMonitors call is suspended
    queue,        \* documents returned by Monitor.find() still to be visited
    doc,          \* the in-memory document `monitor` of the current iteration
    base,         \* the document as mongoose last loaded or saved it
    cur,          \* currentStatus
    at,           \* what new Date() returned when the probe resolved
    pre,          \* the document as it was when the current update began
    emitted,      \* sendAlert calls made by the current update, in order
    saved,        \* a monitor.save() of the current update has succeeded
    alerts,       \* every notification handed to the mail transport, in order
    outcome,      \* how the update of the current iteration ended
    nextId,       \* the id the next created monitor gets
    p2,           \* a second caller of updateMonitorStatus running beside the
                  \* cycle: an edge-update request, or a cycle that setInterval
                  \* started while the previous one was still running
    mail,         \* the sendAlert call followed recipient by recipient
    reports,      \* edge-update requests received so far
    probe,        \* the probe of one monitor followed sub-probe by sub-probe
    reply         \* the last answer of POST /subscribers

vars == <<version, exists, store, subscribers, now, timerDue, pc, queue, doc,
          base, cur, at, pre, emitted, saved, alerts, outcome, nextId, p2, mail, reports, probe, reply>>

----------------------------------------------------------------------------
(* Bounds of the model *)

MaxTime == 4

\* The source keeps the last 500 history entries; the model keeps the last
\* HistoryCap, so that eviction is reached within MaxTime.
HistoryCap == 2

\* The simple version keeps the last 50 entries; the model keeps the last
\* SimpleHistoryCap.
SimpleHistoryCap == 1

\* The edge-update requests followed in one behaviour.
MaxReports == 1

\* Seconds a sub-probe is followed for.
MaxWait == 11

(* Program constants *)

\* `if (minutesDown >= 2)`
THRESHOLD == 2

\* `socket.setTimeout(5000)` of checkTcp, in seconds.
TCP_TIMEOUT == 5

\* EDGE_MONITORS without "slpost".
MutEDGE_MONITORS == {"Finger print", "MORS", "mms"}

EDGE_MONITORS == {"slpost", "Finger print", "MORS", "mms"}

\* The monitors that can be registered: ids in insertion order.
MonIds == {1, 2, 3}

\* The `name` a monitor is registered with.
NameOf(id) == IF id = 2 THEN "slpost" ELSE IF id = 1 THEN "alpha" ELSE "beta"

Emails == <<"a@x.lk">>

\* downSince / lastChecked when the field holds no Date (null or undefined)
NoDate == -1

\* The deployed server.js:
\*   "edge"    checkMonitors + updateMonitorStatus with the per-monitor
\*             try/catch and the EDGE_MONITORS skip
\*   "resend"  the loop with the transition logic inline, no try/catch
\*   "smtp"    the nodemailer loop: recovery mail on every change to up,
\*             down mail sent before alertSent is set
\*   "simple"  the loop without downSince: mail on the first failed probe
Versions == {"edge", "resend", "smtp", "simple"}

----------------------------------------------------------------------------
(* Documents *)

\* NewMonitor with alertSent set.
MutNewMonitor(id) ==
    [id |-> id, status |-> "unknown", downSince |-> NoDate, alertSent |-> TRUE,
     history |-> <<>>, lastChecked |-> NoDate]

\* new Monitor({ name, url, status: 'unknown', history: [] }) with the schema
\* defaults: alertSent false, no downSince, no lastChecked.
NewMonitor(id) ==
    [id |-> id, status |-> "unknown", downSince |-> NoDate, alertSent |-> FALSE,
     history |-> <<>>, lastChecked |-> NoDate]

\* What the collection holds for id once the in-memory document d is saved:
\* mongoose writes the paths whose value differs from the last loaded or
\* saved value b, and leaves the other paths of the stored document alone.
Written(stored, d, b) ==
    [id |-> stored.id,
     status |-> IF d.status # b.status THEN d.status ELSE stored.status,
     downSince |-> IF d.downSince # b.downSince THEN d.downSince ELSE stored.downSince,
     alertSent |-> IF d.alertSent # b.alertSent THEN d.alertSent ELSE stored.alertSent,
     history |-> IF d.history # b.history THEN d.history ELSE stored.history,
     lastChecked |-> IF d.lastChecked # b.lastChecked THEN d.lastChecked
                     ELSE stored.lastChecked]

\* PushHistory with pop() in place of shift(): the newest entry is dropped.
MutPushHistory(h, s, t) ==
    LET h1 == Append(h, [status |-> s, timestamp |-> t])
    IN  IF Len(h1) > HistoryCap THEN SubSeq(h1, 1, Len(h1) - 1) ELSE h1

\* monitor.history.push({...}); if (monitor.history.length > 500) monitor.history.shift();
PushHistory(h, s, t) ==
    LET h1 == Append(h, [status |-> s, timestamp |-> t])
    IN  IF Len(h1) > HistoryCap THEN Tail(h1) ELSE h1

\* The simple version: monitor.history.push({...});
\* if (monitor.history.length > 50) monitor.history.shift();
PushHistorySimple(h, s, t) ==
    LET h1 == Append(h, [status |-> s, timestamp |-> t])
    IN  IF Len(h1) > SimpleHistoryCap THEN Tail(h1) ELSE h1

----------------------------------------------------------------------------
(* The transition logic of updateMonitorStatus, between its awaits *)

\* ChangeBlock without `monitor.downSince = null` on recovery.
MutChangeBlock(d, s, t) ==
    IF d.status # s
    THEN LET d1 == [d EXCEPT !.status = s, !.history = PushHistory(d.history, s, t)]
         IN  IF s = "down"
             THEN [d1 EXCEPT !.downSince = t, !.alertSent = FALSE]
             ELSE d1
    ELSE d

\* ChangeBlock that stamps downSince on every call with status down.
MutChangeBlockRestamp(d, s, t) ==
    IF d.status # s
    THEN LET d1 == [d EXCEPT !.status = s, !.history = PushHistory(d.history, s, t)]
         IN  IF s = "down"
             THEN [d1 EXCEPT !.downSince = t, !.alertSent = FALSE]
             ELSE [d1 EXCEPT !.downSince = NoDate]
    ELSE IF s = "down" THEN [d EXCEPT !.downSince = t] ELSE d

\* ChangeBlock without `monitor.downSince = new Date()` on going down.
MutChangeBlockNoStamp(d, s, t) ==
    IF d.status # s
    THEN LET d1 == [d EXCEPT !.status = s, !.history = PushHistory(d.history, s, t)]
         IN  IF s = "down"
             THEN [d1 EXCEPT !.alertSent = FALSE]
             ELSE [d1 EXCEPT !.downSince = NoDate]
    ELSE d

\* `if (monitor.status !== currentStatus) { ... }` up to the recovery
\* sendAlert: status, history, downSince, and alertSent when going down.
ChangeBlock(d, s, t) ==
    IF d.status # s
    THEN LET d1 == [d EXCEPT !.status = s, !.history = PushHistory(d.history, s, t)]
         IN  IF s = "down"
             THEN [d1 EXCEPT !.downSince = t, !.alertSent = FALSE]
             ELSE [d1 EXCEPT !.downSince = NoDate]
    ELSE d

\* `if (monitor.alertSent) await sendAlert(monitor, 'up')` in the else branch
\* of a status change; d is the document before the change block.
RecoveryDue(d, s) ==
    d.status # s /\ s # "down" /\ d.alertSent

\* ClearAlertSent without the reset.
MutClearAlertSent(d0, d, s) == d

\* `monitor.alertSent = false` that closes the else branch of a status change.
ClearAlertSent(d0, d, s) ==
    IF d0.status # s /\ s # "down" THEN [d EXCEPT !.alertSent = FALSE] ELSE d

\* SustainedDown evaluated only in the call that changed the status to down,
\* where downSince is the time of the call.
MutSustainedOnChange(d, s, t) ==
    /\ s = "down"
    /\ d.downSince = t
    /\ ~d.alertSent
    /\ t - d.downSince >= THRESHOLD

\* SustainedDown with `minutesDown > 2`.
MutSustainedDown(d, s, t) ==
    /\ s = "down"
    /\ d.downSince # NoDate
    /\ ~d.alertSent
    /\ t - d.downSince > THRESHOLD

\* `currentStatus === 'down' && monitor.downSince && !monitor.alertSent`
\* and `minutesDown >= 2`.
SustainedDown(d, s, t) ==
    /\ s = "down"
    /\ d.downSince # NoDate
    /\ ~d.alertSent
    /\ t - d.downSince >= THRESHOLD

\* `monitor.alertSent = true` before the first save.
MarkAlertSent(d) == [d EXCEPT !.alertSent = TRUE]

\* Touch that leaves lastChecked alone.
MutTouch(d, t) == d

\* `monitor.lastChecked = new Date()`.
Touch(d, t) == [d EXCEPT !.lastChecked = t]

\* ProbeResult that marks up only when the TCP connect succeeded as well.
MutProbeResult(http, tcp) ==
    IF http /\ tcp THEN "up" ELSE "down"

\* The probe of one iteration: axios.get resolved (any status code axios does
\* not reject) or, after it rejected, checkTcp resolved true.
ProbeResult(http, tcp) ==
    IF http THEN "up" ELSE IF tcp THEN "up" ELSE "down"

\* for (const monitor of monitors): the documents Monitor.find() returned,
\* in insertion order.
RECURSIVE DocsOf(_)
DocsOf(S) ==
    IF S = {} THEN <<>>
    ELSE LET m == CHOOSE x \in S : \A y \in S : x <= y
         IN  <<store[m]>> \o DocsOf(S \ {m})

\* One notification handed to the mail transport; `live` records whether
\* the monitor was still in the collection at that moment.
AlertEntry(d, dir, ok) ==
    [mon |-> d.id, dir |-> dir,
     since |-> IF dir = "down" THEN d.downSince ELSE pre.downSince,
     saved |-> saved, flag |-> saved /\ base.alertSent, ok |-> ok,
     live |-> d.id \in exists]

----------------------------------------------------------------------------
(* Initial states: the server has just started *)

Blank == NewMonitor(0)

\* No second caller of updateMonitorStatus is running.
Idle2 ==
    [kind |-> "none", pc |-> "idle", queue |-> <<>>, doc |-> Blank, base |-> Blank,
     pre |-> Blank, cur |-> "none", at |-> 0, emitted |-> <<>>, saved |-> FALSE,
     outcome |-> "none", name |-> "", res |-> 0]

\* The addresses that can subscribe.
Recipients == {"m.nuwan245@gmail.com", "ssanetwork@slpost.lk", "a@x.lk"}

\* No probe is being followed.
NoProbe ==
    [pc |-> "idle", kind |-> "none", url |-> [scheme |-> "none", port |-> 0, valid |-> FALSE],
     resp |-> "none", tcp |-> "none", port |-> 0, result |-> "none",
     target |-> "none", elapsed |-> 0]

\* No subscribe request has been answered yet.
NoReply ==
    [route |-> "none", body |-> [kind |-> "absent", text |-> ""], status |-> 0,
     before |-> <<>>, after |-> <<>>]

\* No sendAlert call is being followed.
NoMail ==
    [mailer |-> "none", pc |-> "idle", list |-> <<>>, rest |-> <<>>,
     attempts |-> [r \in Recipients |-> 0], delivered |-> {}]

\* No handler is running and no timer is due.
Quiet ==
    /\ subscribers = Emails
    /\ timerDue = FALSE
    /\ pc = "idle"
    /\ queue = <<>>
    /\ doc = Blank
    /\ base = Blank
    /\ cur = "none"
    /\ at = 0
    /\ pre = Blank
    /\ emitted = <<>>
    /\ saved = FALSE
    /\ alerts = <<>>
    /\ outcome = "none"
    /\ p2 = Idle2
    /\ mail = NoMail
    /\ reports = 0
    /\ probe = NoProbe
    /\ reply = NoReply

\* The state the server starts in, but for the deployed version and the
\* registered monitors.
Started ==
    /\ store = [i \in MonIds |-> NewMonitor(i)]
    /\ now = 0
    /\ nextId = 4
    /\ Quiet

\* A monitor two minutes into an outage: found down at minute 1, checked
\* again at minute 2, no alert sent yet.
Outage(id) ==
    [id |-> id, status |-> "down", downSince |-> 1, alertSent |-> FALSE,
     history |-> <<[status |-> "down", timestamp |-> 1]>>, lastChecked |-> 2]

\* The same monitor once the check of minute 3 has sent the down alert.
Alerted(id) ==
    [id |-> id, status |-> "down", downSince |-> 1, alertSent |-> TRUE,
     history |-> <<[status |-> "down", timestamp |-> 1]>>, lastChecked |-> 3]

\* A monitor whose outage began two minutes before minute 0 and whose down
\* alert the check of minute 0 has sent.
AlertedBefore(id) ==
    [id |-> id, status |-> "down", downSince |-> 0 - THRESHOLD, alertSent |-> TRUE,
     history |-> <<[status |-> "down", timestamp |-> 0 - THRESHOLD]>>,
     lastChecked |-> 0]

\* The edge version at minute 0: "alpha" is new or has been alerted for an
\* outage, "slpost" is new.
InitRearm ==
    /\ version = "edge"
    /\ exists = {1, 2}
    /\ \E a \in {NewMonitor(1), AlertedBefore(1)} :
          store = [id \in MonIds |-> IF id = 1 THEN a ELSE NewMonitor(id)]
    /\ now = 0
    /\ nextId = 4
    /\ Quiet

\* The edge version at minute 3 of an outage of "alpha", which the cycle
\* checks, and of "slpost", which the edge node reports; for either monitor
\* the check of minute 3 has or has not happened.
InitOutage ==
    /\ version = "edge"
    /\ exists = {1, 2}
    /\ \E a \in {Outage(1), Alerted(1)}, b \in {Outage(2), Alerted(2)} :
          store = [i \in MonIds |-> IF i = 1 THEN a ELSE IF i = 2 THEN b
                                                      ELSE NewMonitor(i)]
    /\ now = 3
    /\ nextId = 4
    /\ Quiet

\* The edge version runs; "alpha" and the edge monitor "slpost" are registered
\* and have not been checked yet.
Init ==
    /\ version = "edge"
    /\ exists = {1, 2}
    /\ Started

----------------------------------------------------------------------------
(* Environment *)

\* A minute passes; setInterval(checkMonitors, 60000) fires.
Tick ==
    /\ now < MaxTime
    /\ now' = now + 1
    /\ timerDue' = TRUE
    /\ UNCHANGED <<version, exists, store, subscribers, pc, queue, doc, base, cur,
                   at, pre, emitted, saved, alerts, outcome, nextId, p2, mail, reports, probe, reply>>

\* app.post('/monitors'): a new document with status unknown, empty history.
CreateMonitor ==
    /\ nextId \in MonIds
    /\ exists' = exists \cup {nextId}
    /\ store' = [store EXCEPT ![nextId] = NewMonitor(nextId)]
    /\ nextId' = nextId + 1
    /\ UNCHANGED <<version, subscribers, now, timerDue, pc, queue, doc, base, cur,
                   at, pre, emitted, saved, alerts, outcome, p2, mail, reports, probe, reply>>

\* app.delete('/monitors/:id'): Monitor.findByIdAndDelete.
DeleteMonitor(id) ==
    /\ id \in exists
    /\ exists' = exists \ {id}
    /\ store' = [store EXCEPT ![id] = NewMonitor(id)]
    /\ UNCHANGED <<version, subscribers, now, timerDue, pc, queue, doc, base, cur,
                   at, pre, emitted, saved, alerts, outcome, nextId, p2, mail, reports, probe, reply>>

----------------------------------------------------------------------------
(* checkMonitors *)

\* An error leaves updateMonitorStatus.  The per-monitor try/catch of the
\* edge version logs it and goes on with the next monitor; the versions
\* without it reject the promise of checkMonitors, and `queue` keeps the
\* monitors the abandoned loop did not reach.
Throw(kind) ==
    /\ outcome' = kind
    /\ IF version = "edge"
       THEN pc' = "loop" /\ queue' = queue
       ELSE pc' = "rejected" /\ queue' = queue

\* From the sustained-down check to the next await, on document d.
SustainedAt(d, s) ==
    IF SustainedDown(d, s, now)
    THEN IF version = "smtp"
         THEN doc' = d /\ pc' = "sendDown"
         ELSE doc' = MarkAlertSent(d) /\ pc' = "saveFlag"
    ELSE doc' = Touch(d, now) /\ pc' = "saveFinal"

\* const monitors = await Monitor.find();
StartCycle ==
    /\ pc \in {"idle", "rejected"}
    /\ timerDue
    /\ timerDue' = FALSE
    /\ \E ok \in BOOLEAN :
          IF ok THEN pc' = "loop" /\ queue' = DocsOf(exists)
                ELSE pc' = "rejected" /\ queue' = <<>>
    /\ doc' = Blank /\ base' = Blank /\ pre' = Blank /\ cur' = "none" /\ at' = 0
    /\ emitted' = <<>> /\ saved' = FALSE /\ outcome' = "none"
    /\ UNCHANGED <<version, exists, store, subscribers, now, alerts, nextId, p2, mail, reports, probe, reply>>

\* The for loop has run out of monitors: checkMonitors resolves.
EndCycle ==
    /\ pc = "loop"
    /\ queue = <<>>
    /\ pc' = "idle"
    /\ doc' = Blank /\ base' = Blank /\ pre' = Blank /\ cur' = "none" /\ at' = 0
    /\ emitted' = <<>> /\ saved' = FALSE /\ outcome' = "none"
    /\ UNCHANGED <<version, exists, store, subscribers, now, timerDue, queue,
                   alerts, nextId, p2, mail, reports, probe, reply>>

\* if (EDGE_MONITORS.includes(monitor.name)) continue;
SkipEdgeMonitor ==
    /\ pc = "loop"
    /\ queue # <<>>
    /\ version = "edge"
    /\ NameOf(Head(queue).id) \in EDGE_MONITORS
    /\ queue' = Tail(queue)
    /\ doc' = Blank /\ base' = Blank /\ pre' = Blank /\ cur' = "none" /\ at' = 0
    /\ emitted' = <<>> /\ saved' = FALSE /\ outcome' = "skipped"
    /\ UNCHANGED <<version, exists, store, subscribers, now, timerDue, pc,
                   alerts, nextId, p2, mail, reports, probe, reply>>

\* The next monitor of the loop: axios.get(monitor.url, ...) is awaited.
BeginMonitor ==
    /\ pc = "loop"
    /\ queue # <<>>
    /\ version = "edge" => NameOf(Head(queue).id) \notin EDGE_MONITORS
    /\ queue' = Tail(queue)
    /\ doc' = Head(queue) /\ base' = Head(queue) /\ pre' = Head(queue)
    /\ cur' = "none" /\ at' = 0 /\ emitted' = <<>> /\ saved' = FALSE
    /\ outcome' = "running"
    /\ pc' = "probe"
    /\ UNCHANGED <<version, exists, store, subscribers, now, timerDue, alerts, nextId, p2, mail, reports, probe, reply>>

\* The probe resolves, and updateMonitorStatus runs to its first await.
Probe ==
    /\ pc = "probe"
    /\ version # "simple"
    /\ \E http \in BOOLEAN, tcp \in BOOLEAN :
          /\ version # "edge" => ~tcp
          /\ cur' = ProbeResult(http, tcp)
          /\ at' = now
          /\ LET d1 == ChangeBlock(doc, cur', now)
             IN  IF version = "smtp"
                 THEN IF doc.status # cur' /\ cur' # "down"
                      THEN doc' = ClearAlertSent(doc, d1, cur') /\ pc' = "sendUp"
                      ELSE SustainedAt(d1, cur')
                 ELSE IF RecoveryDue(doc, cur')
                      THEN doc' = d1 /\ pc' = "sendUp"
                      ELSE SustainedAt(ClearAlertSent(doc, d1, cur'), cur')
    /\ UNCHANGED <<version, exists, store, subscribers, now, timerDue, queue, base,
                   pre, emitted, saved, alerts, outcome, nextId, p2, mail, reports, probe, reply>>

\* sendAlert(monitor, 'up') returns or throws; then `monitor.alertSent = false`
\* and the sustained-down check.  Subscriber.find() is outside the try of
\* sendAlert, so its failure leaves sendAlert as an error; a failure of the
\* send itself is caught and logged inside sendAlert.
SendUp ==
    /\ pc = "sendUp"
    /\ emitted' = Append(emitted, "up")
    /\ \E res \in {"findfail", "sent", "sendfail"} :
          IF res = "findfail"
          THEN /\ Throw("alert")
               /\ UNCHANGED <<doc, alerts>>
          ELSE /\ alerts' = IF subscribers = <<>> THEN alerts
                            ELSE Append(alerts, AlertEntry(doc, "up", res = "sent"))
               /\ SustainedAt(ClearAlertSent(pre, doc, cur), cur)
               /\ UNCHANGED <<queue, outcome>>
    /\ UNCHANGED <<version, exists, store, subscribers, now, timerDue, base, cur,
                   at, pre, saved, nextId, p2, mail, reports, probe, reply>>

\* An awaited monitor.save(): it writes the modified paths, or rejects with
\* DocumentNotFoundError when the document is gone, or rejects because the
\* store cannot be reached.
SaveOutcomes == {"ok", "error"}

\* `await monitor.save()` right after `monitor.alertSent = true`.
SaveFlag ==
    /\ pc = "saveFlag"
    /\ \E res \in SaveOutcomes :
          IF res = "error"
          THEN /\ Throw("error")
               /\ UNCHANGED <<store, base, saved>>
          ELSE IF doc.id \notin exists
          THEN /\ Throw("deleted")
               /\ UNCHANGED <<store, base, saved>>
          ELSE /\ store' = [store EXCEPT ![doc.id] = Written(store[doc.id], doc, base)]
               /\ base' = doc
               /\ saved' = TRUE
               /\ pc' = "sendDown"
               /\ UNCHANGED <<queue, outcome>>
    /\ UNCHANGED <<version, exists, subscribers, now, timerDue, doc, cur, at,
                   pre, emitted, alerts, nextId, p2, mail, reports, probe, reply>>

\* sendAlert(monitor, 'down') returns or throws; then lastChecked is set.
\* The smtp version sets `monitor.alertSent = true` only here, after the send;
\* the simple version (sendDownAlert) has no lastChecked.
SendDown ==
    /\ pc = "sendDown"
    /\ emitted' = Append(emitted, "down")
    /\ \E res \in {"findfail", "sent", "sendfail"} :
          IF res = "findfail"
          THEN /\ Throw("alert")
               /\ UNCHANGED <<doc, alerts>>
          ELSE /\ alerts' = IF subscribers = <<>> THEN alerts
                            ELSE Append(alerts, AlertEntry(doc, "down", res = "sent"))
               /\ doc' = IF version = "smtp" THEN Touch(MarkAlertSent(doc), now)
                         ELSE IF version = "simple" THEN doc
                         ELSE Touch(doc, now)
               /\ pc' = "saveFinal"
               /\ UNCHANGED <<queue, outcome>>
    /\ UNCHANGED <<version, exists, store, subscribers, now, timerDue, base, cur,
                   at, pre, saved, nextId, p2, mail, reports, probe, reply>>

\* The closing `await monitor.save()`; updateMonitorStatus returns.
SaveFinal ==
    /\ pc = "saveFinal"
    /\ \E res \in SaveOutcomes :
          IF res = "error"
          THEN /\ Throw("error")
               /\ UNCHANGED <<store, base, saved>>
          ELSE IF doc.id \notin exists
          THEN /\ Throw("deleted")
               /\ UNCHANGED <<store, base, saved>>
          ELSE /\ store' = [store EXCEPT ![doc.id] = Written(store[doc.id], doc, base)]
               /\ base' = doc
               /\ saved' = TRUE
               /\ outcome' = "ok"
               /\ pc' = "loop"
               /\ UNCHANGED queue
    /\ UNCHANGED <<version, exists, subscribers, now, timerDue, doc, cur, at,
                   pre, emitted, alerts, nextId, p2, mail, reports, probe, reply>>

----------------------------------------------------------------------------
(* A second caller of updateMonitorStatus, beside the running cycle:       *)
(* the POST /api/edge-update handler, or a checkMonitors call that         *)
(* setInterval started while the previous call had not returned.           *)

\* The names an edge node can report; "ghost" is the name of no monitor.
ReportNames == {"alpha", "slpost", "ghost"}

\* FindOne that falls back to every document when none has the name.
MutFindOne(name) ==
    IF \A id \in exists : NameOf(id) # name THEN exists
    ELSE {id \in exists : NameOf(id) = name}

\* Monitor.findOne({ name }): the ids of the documents with that name.
FindOne(name) == {id \in exists : NameOf(id) = name}

\* UpdateFromSustained without the 2-minute alert.
MutUpdateFromSustained(d, s, t) ==
    [doc |-> Touch(d, t), pc |-> "saveFinal"]

\* updateMonitorStatus from the 2-minute check to its next await.
UpdateFromSustained(d, s, t) ==
    IF SustainedDown(d, s, t)
    THEN [doc |-> MarkAlertSent(d), pc |-> "saveFlag"]
    ELSE [doc |-> Touch(d, t), pc |-> "saveFinal"]

\* updateMonitorStatus from its entry to its first await.
UpdateFromEntry(d, s, t) ==
    IF RecoveryDue(d, s)
    THEN [doc |-> ChangeBlock(d, s, t), pc |-> "sendUp"]
    ELSE UpdateFromSustained(ClearAlertSent(d, ChangeBlock(d, s, t), s), s, t)

\* The second caller enters updateMonitorStatus(d, s).
Entered2(r, d, s) ==
    LET u == UpdateFromEntry(d, s, now)
    IN  [r EXCEPT !.doc = u.doc, !.base = d, !.pre = d, !.cur = s, !.at = now,
                  !.emitted = <<>>, !.saved = FALSE, !.outcome = "running",
                  !.pc = u.pc]

\* An error leaves updateMonitorStatus in the second caller: the edge-update
\* handler answers 500, the loop catches it and goes on.
Fail2(r, kind) ==
    IF r.kind = "report"
    THEN [r EXCEPT !.outcome = kind, !.pc = "done", !.res = 500]
    ELSE [r EXCEPT !.outcome = kind, !.pc = "loop"]

\* One notification handed to the mail transport by the second caller.
AlertEntry2(dir, ok) ==
    [mon |-> p2.doc.id, dir |-> dir,
     since |-> IF dir = "down" THEN p2.doc.downSince ELSE p2.pre.downSince,
     saved |-> p2.saved, flag |-> p2.saved /\ p2.base.alertSent, ok |-> ok,
     live |-> p2.doc.id \in exists]

\* app.post('/api/edge-update'): findOne by name, 404 when there is none,
\* else updateMonitorStatus(monitor, status) up to its first await.
EdgeUpdate(name, status) ==
    /\ version = "edge"
    /\ p2.kind = "none"
    /\ reports < MaxReports
    /\ reports' = reports + 1
    /\ LET r == [Idle2 EXCEPT !.kind = "report", !.name = name, !.cur = status]
       IN  \E ok \in BOOLEAN :
              IF ~ok
              THEN p2' = [r EXCEPT !.pc = "done", !.res = 500, !.outcome = "error"]
              ELSE IF FindOne(name) = {}
              THEN p2' = [r EXCEPT !.pc = "done", !.res = 404]
              ELSE LET id == CHOOSE x \in FindOne(name) : \A y \in FindOne(name) : x <= y
                   IN  p2' = Entered2(r, store[id], status)
    /\ UNCHANGED <<version, exists, store, subscribers, now, timerDue, pc, queue,
                   doc, base, cur, at, pre, emitted, saved, alerts, outcome,
                   nextId, mail, probe, reply>>

\* The response of the edge-update request has been sent.
Respond ==
    /\ p2.kind = "report"
    /\ p2.pc = "done"
    /\ p2' = Idle2
    /\ UNCHANGED <<version, exists, store, subscribers, now, timerDue, pc, queue,
                   doc, base, cur, at, pre, emitted, saved, alerts, outcome,
                   nextId, mail, reports, probe, reply>>

\* setInterval fires while the previous checkMonitors call is still running:
\* a second call starts with its own Monitor.find().
StartOverlap ==
    /\ version = "edge"
    /\ timerDue
    /\ pc \notin {"idle", "rejected"}
    /\ p2.kind = "none"
    /\ timerDue' = FALSE
    /\ \E ok \in BOOLEAN :
          IF ok THEN p2' = [Idle2 EXCEPT !.kind = "cycle", !.pc = "loop",
                                         !.queue = DocsOf(exists)]
                ELSE p2' = Idle2
    /\ UNCHANGED <<version, exists, store, subscribers, now, pc, queue, doc, base,
                   cur, at, pre, emitted, saved, alerts, outcome, nextId, mail, reports, probe, reply>>

\* The second call has run out of monitors.
EndOverlap ==
    /\ p2.kind = "cycle"
    /\ p2.pc = "loop"
    /\ p2.queue = <<>>
    /\ p2' = Idle2
    /\ UNCHANGED <<version, exists, store, subscribers, now, timerDue, pc, queue,
                   doc, base, cur, at, pre, emitted, saved, alerts, outcome,
                   nextId, mail, reports, probe, reply>>

\* The second call skips an edge monitor.
SkipEdgeMonitor2 ==
    /\ p2.kind = "cycle"
    /\ p2.pc = "loop"
    /\ p2.queue # <<>>
    /\ NameOf(Head(p2.queue).id) \in EDGE_MONITORS
    /\ p2' = [p2 EXCEPT !.queue = Tail(p2.queue), !.doc = Blank, !.base = Blank,
                        !.pre = Blank, !.cur = "none", !.at = 0, !.emitted = <<>>,
                        !.saved = FALSE, !.outcome = "skipped"]
    /\ UNCHANGED <<version, exists, store, subscribers, now, timerDue, pc, queue,
                   doc, base, cur, at, pre, emitted, saved, alerts, outcome,
                   nextId, mail, reports, probe, reply>>

\* The second call takes its next monitor and awaits the probe.
BeginMonitor2 ==
    /\ p2.kind = "cycle"
    /\ p2.pc = "loop"
    /\ p2.queue # <<>>
    /\ NameOf(Head(p2.queue).id) \notin EDGE_MONITORS
    /\ p2' = [p2 EXCEPT !.queue = Tail(p2.queue), !.doc = Head(p2.queue),
                        !.base = Head(p2.queue), !.pre = Head(p2.queue),
                        !.cur = "none", !.at = 0, !.emitted = <<>>,
                        !.saved = FALSE, !.outcome = "running", !.pc = "probe"]
    /\ UNCHANGED <<version, exists, store, subscribers, now, timerDue, pc, queue,
                   doc, base, cur, at, pre, emitted, saved, alerts, outcome,
                   nextId, mail, reports, probe, reply>>

\* The probe of the second call resolves; updateMonitorStatus runs to its
\* first await.
Probe2 ==
    /\ p2.kind = "cycle"
    /\ p2.pc = "probe"
    /\ \E http \in BOOLEAN, tcp \in BOOLEAN :
          p2' = Entered2(p2, p2.doc, ProbeResult(http, tcp))
    /\ UNCHANGED <<version, exists, store, subscribers, now, timerDue, pc, queue,
                   doc, base, cur, at, pre, emitted, saved, alerts, outcome,
                   nextId, mail, reports, probe, reply>>

\* sendAlert(monitor, 'up') in the second caller, then `alertSent = false`
\* and the 2-minute check.
SendUp2 ==
    /\ p2.pc = "sendUp"
    /\ \E res \in {"findfail", "sent", "sendfail"} :
          LET r == [p2 EXCEPT !.emitted = Append(p2.emitted, "up")]
          IN  IF res = "findfail"
              THEN /\ p2' = Fail2(r, "alert")
                   /\ alerts' = alerts
              ELSE /\ alerts' = IF subscribers = <<>> THEN alerts
                                ELSE Append(alerts, AlertEntry2("up", res = "sent"))
                   /\ LET u == UpdateFromSustained(
                                   ClearAlertSent(p2.pre, p2.doc, p2.cur), p2.cur, now)
                      IN  p2' = [r EXCEPT !.doc = u.doc, !.pc = u.pc]
    /\ UNCHANGED <<version, exists, store, subscribers, now, timerDue, pc, queue,
                   doc, base, cur, at, pre, emitted, saved, outcome, nextId, mail, reports, probe, reply>>

\* `await monitor.save()` after `alertSent = true`, in the second caller.
SaveFlag2 ==
    /\ p2.pc = "saveFlag"
    /\ \E res \in SaveOutcomes :
          IF res = "error"
          THEN p2' = Fail2(p2, "error") /\ store' = store
          ELSE IF p2.doc.id \notin exists
          THEN p2' = Fail2(p2, "deleted") /\ store' = store
          ELSE /\ store' = [store EXCEPT
                              ![p2.doc.id] = Written(store[p2.doc.id], p2.doc, p2.base)]
               /\ p2' = [p2 EXCEPT !.base = p2.doc, !.saved = TRUE, !.pc = "sendDown"]
    /\ UNCHANGED <<version, exists, subscribers, now, timerDue, pc, queue, doc,
                   base, cur, at, pre, emitted, saved, alerts, outcome, nextId, mail, reports, probe, reply>>

\* sendAlert(monitor, 'down') in the second caller, then lastChecked.
SendDown2 ==
    /\ p2.pc = "sendDown"
    /\ \E res \in {"findfail", "sent", "sendfail"} :
          LET r == [p2 EXCEPT !.emitted = Append(p2.emitted, "down")]
          IN  IF res = "findfail"
              THEN /\ p2' = Fail2(r, "alert")
                   /\ alerts' = alerts
              ELSE /\ alerts' = IF subscribers = <<>> THEN alerts
                                ELSE Append(alerts, AlertEntry2("down", res = "sent"))
                   /\ p2' = [r EXCEPT !.doc = Touch(p2.doc, now), !.pc = "saveFinal"]
    /\ UNCHANGED <<version, exists, store, subscribers, now, timerDue, pc, queue,
                   doc, base, cur, at, pre, emitted, saved, outcome, nextId, mail, reports, probe, reply>>

\* The closing `await monitor.save()` of the second caller: the handler
\* answers { success: true }, the loop goes on.
SaveFinal2 ==
    /\ p2.pc = "saveFinal"
    /\ \E res \in SaveOutcomes :
          IF res = "error"
          THEN p2' = Fail2(p2, "error") /\ store' = store
          ELSE IF p2.doc.id \notin exists
          THEN p2' = Fail2(p2, "deleted") /\ store' = store
          ELSE /\ store' = [store EXCEPT
                              ![p2.doc.id] = Written(store[p2.doc.id], p2.doc, p2.base)]
               /\ p2' = [p2 EXCEPT !.base = p2.doc, !.saved = TRUE, !.outcome = "ok",
                                   !.pc = IF p2.kind = "report" THEN "done" ELSE "loop",
                                   !.res = IF p2.kind = "report" THEN 200 ELSE 0]
    /\ UNCHANGED <<version, exists, subscribers, now, timerDue, pc, queue, doc,
                   base, cur, at, pre, emitted, saved, alerts, outcome, nextId, mail, reports, probe, reply>>

----------------------------------------------------------------------------
(* sendAlert, recipient by recipient, and the subscriber routes *)

\* The sendAlert of the deployed server.js:
\*   "batch"  one resend.emails.send with every subscriber in `to`
\*   "keys"   one send per subscriber that has an entry in EMAIL_KEYS
\*   "each"   one transporter.sendMail per subscriber, all awaited together
Mailers == {"batch", "keys", "each"}

\* The addresses EMAIL_KEYS maps to an API key.
EMAIL_KEYS == {"m.nuwan245@gmail.com", "ssanetwork@slpost.lk"}

\* What a request body can carry as `email`: nothing, a string, a number.
Bodies ==
    {[kind |-> "string", text |-> r] : r \in Recipients \cup {"", "nobody.lk"}}
        \cup {[kind |-> "absent", text |-> ""], [kind |-> "number", text |-> "42"]}

\* `!email`: the value is undefined or the empty string.
Falsy(b) == b.kind = "absent" \/ (b.kind = "string" /\ b.text = "")

\* `email.includes('@')` on a string.
IncludesAt(b) == b.text \in Recipients

\* Upsert that inserts a document whether or not one matches.
MutUpsert(list, e) == Append(list, e)

\* Subscriber.updateOne({ email }, { email }, { upsert: true }): the matching
\* document is rewritten with the same address, or one is inserted.
Upsert(list, e) ==
    IF \E i \in DOMAIN list : list[i] = e THEN list ELSE Append(list, e)

\* Subscriber.deleteOne({ email }): the first matching document goes.
DeleteOne(list, e) ==
    IF \E i \in DOMAIN list : list[i] = e
    THEN LET k == CHOOSE i \in DOMAIN list :
                      list[i] = e /\ \A j \in 1..(i - 1) : list[j] # e
         IN  SubSeq(list, 1, k - 1) \o SubSeq(list, k + 1, Len(list))
    ELSE list

\* app.post('/subscribers'): 400 for a falsy value or a string without '@';
\* `includes` on a number is a TypeError, which the catch answers with 500,
\* as it does a rejected updateOne; else the upsert.
Subscribe(b) ==
    /\ \E ok \in BOOLEAN :
          LET status == IF Falsy(b) THEN 400
                        ELSE IF b.kind # "string" THEN 500
                        ELSE IF ~IncludesAt(b) THEN 400
                        ELSE IF ok THEN 200 ELSE 500
          IN  /\ subscribers' = IF status = 200 THEN Upsert(subscribers, b.text)
                                ELSE subscribers
              /\ reply' = [route |-> "subscribe", body |-> b, status |-> status,
                           before |-> subscribers, after |-> subscribers']
    /\ UNCHANGED <<version, exists, store, now, timerDue, pc, queue, doc, base,
                   cur, at, pre, emitted, saved, alerts, outcome, nextId, p2,
                   mail, reports, probe>>

\* app.delete('/subscribers'): deleteOne of the address.
Unsubscribe(e) ==
    /\ \E i \in DOMAIN subscribers : subscribers[i] = e
    /\ subscribers' = DeleteOne(subscribers, e)
    /\ UNCHANGED <<version, exists, store, now, timerDue, pc, queue, doc, base,
                   cur, at, pre, emitted, saved, alerts, outcome, nextId, p2,
                   mail, reports, probe, reply>>

\* sendAlert is called: `await Subscriber.find()` rejects, which is outside
\* every try of sendAlert, or returns the list; an empty list returns at once.
SendAlertLoad(m) ==
    /\ mail.pc = "idle"
    /\ mail.mailer \in {"none", m}
    /\ \E ok \in BOOLEAN :
          mail' = IF ~ok THEN [NoMail EXCEPT !.mailer = m, !.pc = "thrown"]
                  ELSE IF subscribers = <<>>
                  THEN [NoMail EXCEPT !.mailer = m, !.pc = "returned"]
                  ELSE [NoMail EXCEPT !.mailer = m, !.pc = "sending",
                                      !.list = subscribers,
                                      !.rest = subscribers]
    /\ UNCHANGED <<version, exists, store, subscribers, now, timerDue, pc, queue,
                   doc, base, cur, at, pre, emitted, saved, alerts, outcome,
                   nextId, p2, reports, probe, reply>>

\* "batch": the one send with `to: subscribers.map(s => s.email)`; an error
\* of the call is caught and logged.
SendBatch ==
    /\ mail.pc = "sending"
    /\ mail.mailer = "batch"
    /\ \E ok \in BOOLEAN :
          mail' = [mail EXCEPT
                     !.attempts = [r \in Recipients |->
                                     IF \E i \in DOMAIN mail.list : mail.list[i] = r
                                     THEN mail.attempts[r] + 1 ELSE mail.attempts[r]],
                     !.delivered = IF ok THEN {mail.list[i] : i \in DOMAIN mail.list}
                                   ELSE {},
                     !.rest = <<>>,
                     !.pc = "returned"]
    /\ UNCHANGED <<version, exists, store, subscribers, now, timerDue, pc, queue,
                   doc, base, cur, at, pre, emitted, saved, alerts, outcome,
                   nextId, p2, reports, probe, reply>>

\* The sendAlert versions that pick an API key per subscriber: "keys" is
\* `EMAIL_KEYS[recipientEmail]`, "default" is
\* `EMAIL_KEYS[recipientEmail] || DEFAULT_KEY` with DEFAULT_KEY set (with
\* DEFAULT_KEY unset it is "keys").
KeyMailers == {"keys", "default"}

\* `apiKey` is truthy for subscriber r.
HasKey(m, r) == m = "keys" => r \in EMAIL_KEYS

\* SendOne with `return` in place of `continue` for a subscriber without a
\* key.
MutSendOne ==
    /\ mail.pc = "sending"
    /\ mail.mailer \in {"keys", "each", "default"}
    /\ mail.rest # <<>>
    /\ LET r == Head(mail.rest)
       IN  IF ~HasKey(mail.mailer, r)
           THEN mail' = [mail EXCEPT !.rest = <<>>]
           ELSE \E ok \in BOOLEAN :
                   mail' = [mail EXCEPT
                              !.rest = Tail(mail.rest),
                              !.attempts[r] = mail.attempts[r] + 1,
                              !.delivered = IF ok THEN mail.delivered \cup {r}
                                            ELSE mail.delivered]
    /\ UNCHANGED <<version, exists, store, subscribers, now, timerDue, pc, queue,
                   doc, base, cur, at, pre, emitted, saved, alerts, outcome,
                   nextId, p2, reports, probe, reply>>

\* "keys", "default" and "each": the send to the next subscriber of the
\* list; a subscriber without an API key is skipped with `continue`; a
\* failed send is caught and logged.
SendOne ==
    /\ mail.pc = "sending"
    /\ mail.mailer \in {"keys", "each", "default"}
    /\ mail.rest # <<>>
    /\ LET r == Head(mail.rest)
       IN  IF ~HasKey(mail.mailer, r)
           THEN mail' = [mail EXCEPT !.rest = Tail(mail.rest)]
           ELSE \E ok \in BOOLEAN :
                   mail' = [mail EXCEPT
                              !.rest = Tail(mail.rest),
                              !.attempts[r] = mail.attempts[r] + 1,
                              !.delivered = IF ok THEN mail.delivered \cup {r}
                                            ELSE mail.delivered]
    /\ UNCHANGED <<version, exists, store, subscribers, now, timerDue, pc, queue,
                   doc, base, cur, at, pre, emitted, saved, alerts, outcome,
                   nextId, p2, reports, probe, reply>>

\* "keys" and "each": every subscriber of the list has been visited.
SendAlertReturn ==
    /\ mail.pc = "sending"
    /\ mail.mailer \in {"keys", "each", "default"}
    /\ mail.rest = <<>>
    /\ mail' = [mail EXCEPT !.pc = "returned"]
    /\ UNCHANGED <<version, exists, store, subscribers, now, timerDue, pc, queue,
                   doc, base, cur, at, pre, emitted, saved, alerts, outcome,
                   nextId, p2, reports, probe, reply>>

\* The caller of sendAlert goes on (or handles the error).
SendAlertDone ==
    /\ mail.pc \in {"returned", "thrown"}
    /\ mail' = [NoMail EXCEPT !.mailer = mail.mailer]
    /\ UNCHANGED <<version, exists, store, subscribers, now, timerDue, pc, queue,
                   doc, base, cur, at, pre, emitted, saved, alerts, outcome,
                   nextId, p2, reports, probe, reply>>

----------------------------------------------------------------------------
(* The probe of one monitor, sub-probe by sub-probe *)

\* monitor.url: with or without a scheme, with or without an explicit port,
\* and text that `new URL` accepts or throws on.
Urls ==
    [scheme : {"http", "https", "bare"}, port : {0, 8080}, valid : BOOLEAN]

\* How the HTTP exchange with the target ends: a response with a status of
\* that class, or none (refused, unresolved, timed out, TLS failure).
Responses == {"2xx", "3xx", "4xx", "5xx", "none"}

\* axios.get without a validateStatus option resolves for 2xx and rejects
\* for every other final status and for every transport failure; redirects
\* are followed, so a final 3xx is one it could not follow.
AxiosResolves(resp) == resp = "2xx"

\* What happens to the socket of checkTcp.
TcpOutcomes == {"connect", "error", "timeout", "badurl"}

\* `parsed.port || (cleanUrl.startsWith('https') ? 443 : 80)`, where
\* cleanUrl is the url, prefixed with http:// when it has no scheme.
TcpPort(url) ==
    IF url.port # 0 THEN url.port
    ELSE IF url.scheme = "https" THEN 443 ELSE 80

\* The promise of checkTcp: every path resolves, true on connect only.
CheckTcp(out) == out = "connect"

\* How the target of a probe behaves: it answers (with a response, or with
\* a refusal or reset), it accepts connections and then never answers, or
\* it never answers anything.
Targets == {"live", "mute", "silent"}

\* `timeout: 5000` of axios.get in the loop with the fallback,
\* `timeout: 10000` in the loop without it, in seconds.
AxiosTimeout(kind) == IF kind = "http" THEN 10 ELSE 5

\* The timer of axios.get has run out.
HttpTimedOut(p) == p.elapsed >= AxiosTimeout(p.kind)

\* A checkTcp whose socket has no timeout.
MutTcpTimedOut(p) == FALSE

\* `socket.setTimeout(5000)`: the socket of checkTcp has been idle for
\* five seconds and emits 'timeout'.
TcpTimedOut(p) == p.elapsed >= TCP_TIMEOUT

\* The timer of the sub-probe that is running has run out.
TimedOut(p) ==
    \/ p.pc = "http" /\ HttpTimedOut(p)
    \/ p.pc = "tcp" /\ TcpTimedOut(p)

\* The loop reaches the probe of a monitor: axios.get is awaited.  kind
\* "fallback" is the loop with the TCP fallback, "http" the loop without it.
ProbeStart(kind, url, target) ==
    /\ probe.pc = "idle"
    /\ probe' = [NoProbe EXCEPT !.pc = "http", !.kind = kind, !.url = url,
                                !.target = target]
    /\ UNCHANGED <<version, exists, store, subscribers, now, timerDue, pc, queue,
                   doc, base, cur, at, pre, emitted, saved, alerts, outcome,
                   nextId, p2, mail, reports, reply>>

\* A second passes while a sub-probe waits for its target; a timer that has
\* run out is served before more time passes.
ProbeWait ==
    /\ probe.pc \in {"http", "tcp"}
    /\ ~TimedOut(probe)
    /\ probe.elapsed < MaxWait
    /\ probe' = [probe EXCEPT !.elapsed = probe.elapsed + 1]
    /\ UNCHANGED <<version, exists, store, subscribers, now, timerDue, pc, queue,
                   doc, base, cur, at, pre, emitted, saved, alerts, outcome,
                   nextId, p2, mail, reports, reply>>

\* axios.get settles: resolved is up; rejected goes to checkTcp in the loop
\* with the fallback and is down in the loop without it.
HttpDone(resp) ==
    /\ probe.pc = "http"
    /\ ~probe.url.valid => resp = "none"
    /\ resp # "none" => probe.target = "live"
    /\ resp = "none" =>
          \/ ~probe.url.valid
          \/ probe.target = "live"
          \/ HttpTimedOut(probe)
    /\ probe' = IF AxiosResolves(resp) \/ probe.kind = "http"
                THEN [probe EXCEPT !.resp = resp, !.pc = "done",
                                   !.result = ProbeResult(AxiosResolves(resp), FALSE)]
                ELSE [probe EXCEPT !.resp = resp, !.pc = "tcp", !.elapsed = 0,
                                   !.port = TcpPort(probe.url)]
    /\ UNCHANGED <<version, exists, store, subscribers, now, timerDue, pc, queue,
                   doc, base, cur, at, pre, emitted, saved, alerts, outcome,
                   nextId, p2, mail, reports, reply>>

\* checkTcp resolves: `new URL` threw, or the socket connected, errored or
\* timed out.
TcpDone(out) ==
    /\ probe.pc = "tcp"
    /\ (out = "badurl") <=> ~probe.url.valid
    /\ out \in {"connect", "error"} => probe.target \in {"live", "mute"}
    /\ out = "timeout" => TcpTimedOut(probe)
    /\ probe' = [probe EXCEPT !.tcp = out, !.pc = "done",
                              !.result = ProbeResult(FALSE, CheckTcp(out))]
    /\ UNCHANGED <<version, exists, store, subscribers, now, timerDue, pc, queue,
                   doc, base, cur, at, pre, emitted, saved, alerts, outcome,
                   nextId, p2, mail, reports, reply>>

\* currentStatus is handed on and the loop goes to its next monitor.
ProbeDone ==
    /\ probe.pc = "done"
    /\ probe' = NoProbe
    /\ UNCHANGED <<version, exists, store, subscribers, now, timerDue, pc, queue,
                   doc, base, cur, at, pre, emitted, saved, alerts, outcome,
                   nextId, p2, mail, reports, reply>>

----------------------------------------------------------------------------
(* The simple version, and the deployment of the edge version over it *)

\* The loop body of the simple version up to its first await: a history entry
\* on every check, status from the probe, and on a failed probe with
\* alertSent false the flag is set and saved before sendDownAlert.
\* Its schema has neither downSince nor lastChecked.
ProbeSimple ==
    /\ pc = "probe"
    /\ version = "simple"
    /\ \E http \in BOOLEAN :
          /\ cur' = ProbeResult(http, FALSE)
          /\ at' = now
          /\ LET d1 == [doc EXCEPT !.history = PushHistorySimple(doc.history, cur', now)]
             IN  IF http
                 THEN /\ doc' = [d1 EXCEPT !.status = "up", !.alertSent = FALSE]
                      /\ pc' = "saveFinal"
                 ELSE IF ~doc.alertSent
                 THEN /\ doc' = MarkAlertSent([d1 EXCEPT !.status = "down"])
                      /\ pc' = "saveFlag"
                 ELSE /\ doc' = [d1 EXCEPT !.status = "down"]
                      /\ pc' = "saveFinal"
    /\ UNCHANGED <<version, exists, store, subscribers, now, timerDue, queue, base,
                   pre, emitted, saved, alerts, outcome, nextId, p2, mail, reports, probe, reply>>

\* The edge version is started on the database the simple version wrote.
Deploy ==
    /\ version = "simple"
    /\ pc \in {"idle", "rejected"}
    /\ version' = "edge"
    /\ timerDue' = FALSE
    /\ UNCHANGED <<exists, store, subscribers, now, pc, queue, doc, base, cur, at,
                   pre, emitted, saved, alerts, outcome, nextId, p2, mail, reports, probe, reply>>

----------------------------------------------------------------------------
(* Specifications *)

\* The edge version: checkMonitors with the shared updateMonitorStatus.
Next ==
    \/ Tick
    \/ \E id \in MonIds : DeleteMonitor(id)
    \/ StartCycle
    \/ EndCycle
    \/ SkipEdgeMonitor
    \/ BeginMonitor
    \/ Probe
    \/ SendUp
    \/ SaveFlag
    \/ SendDown
    \/ SaveFinal

Spec == Init /\ [][Next]_vars

\* The edge version with edge-update requests arriving beside the cycle:
\* the edge node reports on "slpost" and on a name no monitor has.
NextReport ==
    \/ Tick
    \/ StartCycle
    \/ EndCycle
    \/ SkipEdgeMonitor
    \/ BeginMonitor
    \/ Probe
    \/ SendUp
    \/ SaveFlag
    \/ SendDown
    \/ SaveFinal
    \/ \E name \in ReportNames \ {"alpha"}, status \in {"up", "down"} :
          EdgeUpdate(name, status)
    \/ Respond
    \/ SendUp2
    \/ SaveFlag2
    \/ SendDown2
    \/ SaveFinal2

SpecReport == InitOutage /\ [][NextReport]_vars

\* `const { name, status } = req.body`: the strings a report can carry as
\* status. Nothing between the body and updateMonitorStatus inspects the
\* value, and the schema's `status` is a plain String.
ReportStatuses == {"up", "down", "paused"}

\* The edge version with edge-update requests on every name, "alpha"
\* included, which the cycle checks as well.
NextRace ==
    \/ Tick
    \/ StartCycle
    \/ EndCycle
    \/ SkipEdgeMonitor
    \/ BeginMonitor
    \/ Probe
    \/ SendUp
    \/ SaveFlag
    \/ SendDown
    \/ SaveFinal
    \/ \E name \in ReportNames, status \in ReportStatuses : EdgeUpdate(name, status)
    \/ Respond
    \/ SendUp2
    \/ SaveFlag2
    \/ SendDown2
    \/ SaveFinal2

SpecRace == InitOutage /\ [][NextRace]_vars

\* The edge version with checkMonitors calls that overlap.
NextOverlap ==
    \/ Tick
    \/ StartCycle
    \/ EndCycle
    \/ SkipEdgeMonitor
    \/ BeginMonitor
    \/ Probe
    \/ SendUp
    \/ SaveFlag
    \/ SendDown
    \/ SaveFinal
    \/ StartOverlap
    \/ EndOverlap
    \/ SkipEdgeMonitor2
    \/ BeginMonitor2
    \/ Probe2
    \/ SendUp2
    \/ SaveFlag2
    \/ SendDown2
    \/ SaveFinal2

SpecOverlap == Init /\ [][NextOverlap]_vars

\* sendAlert called on its own, with subscribers coming and going.
NextDispatch ==
    \/ \E b \in Bodies : Subscribe(b)
    \/ \E e \in Recipients : Unsubscribe(e)
    \/ \E m \in Mailers : SendAlertLoad(m)
    \/ SendBatch
    \/ SendOne
    \/ SendAlertReturn
    \/ SendAlertDone

SpecDispatch == Init /\ [][NextDispatch]_vars

\* The resend version: the same transition logic inline in the loop, which
\* has no try/catch.  "alpha" and "beta" are registered.
InitResend ==
    /\ version = "resend"
    /\ exists = {1, 3}
    /\ Started

NextResend ==
    \/ Tick
    \/ \E id \in MonIds : DeleteMonitor(id)
    \/ StartCycle
    \/ EndCycle
    \/ BeginMonitor
    \/ Probe
    \/ SendUp
    \/ SaveFlag
    \/ SendDown
    \/ SaveFinal

SpecResend == InitResend /\ [][NextResend]_vars

\* The smtp version.  "alpha" is registered.
InitSmtp ==
    /\ version = "smtp"
    /\ exists = {1}
    /\ Started

NextSmtp ==
    \/ Tick
    \/ \E id \in MonIds : DeleteMonitor(id)
    \/ StartCycle
    \/ EndCycle
    \/ BeginMonitor
    \/ Probe
    \/ SendUp
    \/ SendDown
    \/ SaveFinal

SpecSmtp == InitSmtp /\ [][NextSmtp]_vars

\* The simple version runs first; later the edge version is deployed on the
\* same database.  "alpha" is registered.
InitUpgrade ==
    /\ version = "simple"
    /\ exists = {1}
    /\ Started

NextUpgrade ==
    \/ Tick
    \/ \E id \in MonIds : DeleteMonitor(id)
    \/ StartCycle
    \/ EndCycle
    \/ BeginMonitor
    \/ ProbeSimple
    \/ Deploy
    \/ Probe
    \/ SendUp
    \/ SaveFlag
    \/ SendDown
    \/ SaveFinal

SpecUpgrade == InitUpgrade /\ [][NextUpgrade]_vars

\* The edge version with monitors created while the cycle runs: "alpha" is
\* registered and in an outage, "slpost" and "beta" are created later.
InitCreate ==
    /\ version = "edge"
    /\ exists = {1}
    /\ \E a \in {Outage(1), Alerted(1)} :
          store = [id \in MonIds |-> IF id = 1 THEN a ELSE NewMonitor(id)]
    /\ now = 3
    /\ nextId = 2
    /\ Quiet

NextCreate ==
    \/ Tick
    \/ CreateMonitor
    \/ \E id \in MonIds : DeleteMonitor(id)
    \/ StartCycle
    \/ EndCycle
    \/ SkipEdgeMonitor
    \/ BeginMonitor
    \/ Probe
    \/ SendUp
    \/ SaveFlag
    \/ SendDown
    \/ SaveFinal

SpecCreate == InitCreate /\ [][NextCreate]_vars

\* The edge version under its scheduling: the clock goes on and setInterval
\* fires, a cycle that is due and not running starts, and every awaited
\* promise of the cycle settles.
Fairness ==
    /\ WF_vars(Tick)
    /\ WF_vars(StartCycle)
    /\ WF_vars(EndCycle)
    /\ WF_vars(SkipEdgeMonitor)
    /\ WF_vars(BeginMonitor)
    /\ WF_vars(Probe)
    /\ WF_vars(SendUp)
    /\ WF_vars(SaveFlag)
    /\ WF_vars(SendDown)
    /\ WF_vars(SaveFinal)

SpecLive == InitRearm /\ [][Next]_vars /\ Fairness

\* The lists of subscribers the subscribe and unsubscribe requests can have
\* left: addresses in any order, none twice.
SubscriberLists ==
    {l \in UNION {[1..n -> Recipients] : n \in 0..Cardinality(Recipients)} :
        \A i, j \in DOMAIN l : l[i] = l[j] => i = j}

\* sendAlert with a key per subscriber, on any list of subscribers.
InitKeys ==
    /\ version = "edge"
    /\ exists = {1, 2}
    /\ store = [id \in MonIds |-> NewMonitor(id)]
    /\ now = 0
    /\ nextId = 4
    /\ timerDue = FALSE
    /\ pc = "idle"
    /\ queue = <<>>
    /\ doc = Blank /\ base = Blank /\ pre = Blank
    /\ cur = "none" /\ at = 0
    /\ emitted = <<>> /\ saved = FALSE
    /\ alerts = <<>>
    /\ outcome = "none"
    /\ p2 = Idle2
    /\ mail = NoMail
    /\ reports = 0
    /\ probe = NoProbe
    /\ reply = NoReply
    /\ subscribers \in SubscriberLists

NextKeys ==
    \/ \E m \in KeyMailers : SendAlertLoad(m)
    \/ SendOne
    \/ SendAlertReturn
    \/ SendAlertDone

SpecKeys == InitKeys /\ [][NextKeys]_vars

\* One probe after another, of either loop, on every kind of url.
NextProbe ==
    \/ \E kind \in {"fallback", "http"}, url \in Urls, target \in Targets :
          ProbeStart(kind, url, target)
    \/ ProbeWait
    \/ \E resp \in Responses : HttpDone(resp)
    \/ \E out \in TcpOutcomes : TcpDone(out)
    \/ ProbeDone

SpecProbe == Init /\ [][NextProbe]_vars

\* The probes under their scheduling: time passes, and a promise that can
\* settle does.
SpecProbeLive ==
    /\ SpecProbe
    /\ WF_vars(ProbeWait)
    /\ WF_vars(\E resp \in Responses : HttpDone(resp))
    /\ WF_vars(\E out \in TcpOutcomes : TcpDone(out))
    /\ WF_vars(ProbeDone)

TypeOK ==
    /\ now \in 0..MaxTime
    /\ exists \subseteq MonIds
    /\ version \in Versions
    /\ pc \in {"idle", "rejected", "loop", "probe", "sendUp", "saveFlag",
               "sendDown", "saveFinal"}

----------------------------------------------------------------------------
(* Properties *)

\* updateMonitorStatus (or the loop body of the versions that inline it)
\* has returned normally for the current monitor.
Completed == pc = "loop" /\ outcome = "ok"

\* The probe of the current monitor has resolved.
Probed == cur # "none"

Persisted(id) == id \in exists

\* C1: within one outage (stored status down, downSince = t0, no other
\* writer) a call with status down emits nothing while now - t0 is below the
\* threshold; a call that runs to completion with now - t0 >= threshold and
\* alertSent false emits exactly one down alert and leaves alertSent true, in
\* memory and in the store; a call that finds alertSent true emits nothing.
C1_ThresholdAlertOnce ==
    (Probed /\ cur = "down" /\ pre.status = "down" /\ pre.downSince # NoDate) =>
        /\ (~pre.alertSent /\ at - pre.downSince < THRESHOLD) =>
              /\ emitted = <<>>
              /\ pc \notin {"saveFlag", "sendDown"}
              /\ ~doc.alertSent
        /\ (~pre.alertSent /\ at - pre.downSince >= THRESHOLD /\ Completed) =>
              /\ emitted = <<"down">>
              /\ doc.alertSent
              /\ Persisted(doc.id) => store[doc.id].alertSent
        /\ Len(emitted) <= 1
        /\ pre.alertSent =>
              /\ emitted = <<>>
              /\ pc \notin {"saveFlag", "sendDown"}

\* C1 witness: a completed call later in an outage whose down alert has
\* been sent: it found alertSent true and emitted nothing.
C1_Witness ==
    /\ Completed /\ cur = "down" /\ pre.status = "down" /\ pre.alertSent
    /\ emitted = <<>>
    /\ \E i \in DOMAIN alerts :
          alerts[i].mon = doc.id /\ alerts[i].dir = "down"
          /\ alerts[i].since = pre.downSince

\* C2: a call that changes the status to up emits a recovered alert if and
\* only if alertSent was true before the call.
C2_RecoveredIffAlertSent ==
    (Probed /\ cur = "up" /\ pre.status # "up") =>
        /\ (pc = "sendUp" \/ emitted # <<>>) => pre.alertSent
        /\ (Completed /\ pre.alertSent) => emitted = <<"up">>

\* C3: every down alert handed to the transport was preceded, in the same
\* call, by a successful save of the document with alertSent = true.
C3_FlagSavedBeforeDownAlert ==
    \A i \in DOMAIN alerts : alerts[i].dir = "down" => alerts[i].flag

\* C4: every alert handed to the transport, down or recovered, was preceded
\* in the same call by a successful save of the transition result.
C4_DispatchAfterSave ==
    \A i \in DOMAIN alerts : alerts[i].saved

\* C5: for one outage of one monitor (the monitor and the downSince of the
\* outage) at most one down alert and at most one recovered alert are handed
\* to the transport, whatever saves and sends fail.
C5_OncePerOutage ==
    \A i, j \in DOMAIN alerts :
        (i < j /\ alerts[i].mon = alerts[j].mon /\ alerts[i].since = alerts[j].since)
            => alerts[i].dir # alerts[j].dir

C7_UpMeansNoAlertSent ==
    /\ Completed => (doc.status = "up" => ~doc.alertSent)
    /\ \A id \in exists : store[id].status = "up" => ~store[id].alertSent

\* C7 witness: a completed recovery of a monitor whose down alert had fired.
C7_Witness ==
    /\ Completed /\ pre.status = "down" /\ pre.alertSent
    /\ doc.status = "up" /\ Persisted(doc.id)

\* C8: no history, in memory or stored, is longer than the cap; a call that
\* changes the status appends (new status, now) and, when the history was
\* full, drops exactly the oldest entry; the other entries keep their order.
C8_HistoryCappedFifo ==
    /\ Len(doc.history) <= HistoryCap
    /\ \A id \in exists : Len(store[id].history) <= HistoryCap
    /\ (Completed /\ pre.status # cur) =>
          LET e == [status |-> cur, timestamp |-> at]
          IN  doc.history = IF Len(pre.history) < HistoryCap
                            THEN Append(pre.history, e)
                            ELSE Append(Tail(pre.history), e)

\* C8 witness: a completed status change on a monitor whose history was full.
C8_Witness ==
    /\ Completed /\ pre.status # cur
    /\ Len(pre.history) = HistoryCap
    /\ Persisted(doc.id) /\ store[doc.id].history = doc.history

\* C9: a call with status down on a stored document that is down with no
\* downSince starts a fresh outage: downSince = now, alertSent = false.
C9_NullDownSinceIsFreshOutage ==
    (version = "edge" /\ Completed /\ cur = "down"
       /\ pre.status = "down" /\ pre.downSince = NoDate) =>
        (doc.downSince = at /\ ~doc.alertSent)

\* C10: the deletion of a monitor during a cycle never ends the cycle with an
\* unhandled DocumentNotFoundError.
C10_DeletionHandled ==
    ~(pc = "rejected" /\ outcome = "deleted")

\* C11: a failure while one monitor is processed never leaves later monitors
\* of the loaded list unvisited: the loop is not abandoned with monitors
\* still to come.
C11_FailureKeepsLoop ==
    ~(pc = "rejected" /\ outcome \in {"error", "alert", "deleted"} /\ queue # <<>>)

\* C12: no checkMonitors call ends with its promise rejected, whatever fails
\* inside it, Monitor.find() included.
C12_NoErrorOutOfCycle ==
    pc # "rejected"

\* C13: when sendAlert returns, every subscriber of the list it loaded has
\* had exactly one send attempt.
C13_EveryoneAttemptedOnce ==
    mail.pc = "returned" =>
        \A i \in DOMAIN mail.list : mail.attempts[mail.list[i]] = 1

\* C14: no updateMonitorStatus call is cut short by an error coming out of
\* sendAlert: the steps after a dispatch always run.
C14_SendAlertReturns ==
    outcome # "alert"

\* C15: no checkMonitors call starts while another one is still running.
C15_OneCycleAtATime ==
    ~(p2.kind = "cycle" /\ pc \notin {"idle", "rejected"})

\* The one transition of updateMonitorStatus(d, s) entered at time t: the
\* fields of the document it leaves (but lastChecked) and the alerts it emits.
Apply(d, s, t) ==
    LET changed == d.status # s
        since == IF ~changed THEN d.downSince ELSE IF s = "down" THEN t ELSE NoDate
        flag == IF changed THEN FALSE ELSE d.alertSent
        fires == s = "down" /\ since # NoDate /\ ~flag /\ t - since >= THRESHOLD
    IN  [status |-> s, downSince |-> since, alertSent |-> (flag \/ fires),
         history |-> IF ~changed THEN d.history
                     ELSE IF Len(d.history) < HistoryCap
                     THEN Append(d.history, [status |-> s, timestamp |-> t])
                     ELSE Append(Tail(d.history), [status |-> s, timestamp |-> t])]

Emits(d, s, t) ==
    IF d.status # s /\ s # "down" /\ d.alertSent THEN <<"up">>
    ELSE IF Apply(d, s, t).alertSent /\ ~(d.status = s /\ d.alertSent) THEN <<"down">>
    ELSE <<>>

Fields(d) ==
    [status |-> d.status, downSince |-> d.downSince, alertSent |-> d.alertSent,
     history |-> d.history]

Core(d) ==
    [status |-> d.status, downSince |-> d.downSince, alertSent |-> d.alertSent]

\* An edge-update request has been answered { success: true }.
Reported == p2.kind = "report" /\ p2.res = 200

\* C16: when a cycle and an edge-update request have both read the same
\* stored document and both completed, the stored status, downSince and
\* alertSent are those of the two transitions applied one after the other,
\* in one of the two orders.
C16_Serialized ==
    (Completed /\ Reported /\ p2.doc.id = doc.id /\ p2.pre = pre /\ Persisted(doc.id)) =>
        \/ Core(store[doc.id]) = Core(Apply(Apply(pre, cur, at), p2.cur, p2.at))
        \/ Core(store[doc.id]) = Core(Apply(Apply(pre, p2.cur, p2.at), cur, at))

\* C17: for one outage of one monitor at most one down alert is handed to the
\* transport, however the cycle and edge-update requests interleave.
C17_OneDownAlertPerOutage ==
    \A i, j \in DOMAIN alerts :
        (i < j /\ alerts[i].dir = "down" /\ alerts[j].dir = "down"
           /\ alerts[i].mon = alerts[j].mon)
            => alerts[i].since # alerts[j].since

\* C18: a completed updateMonitorStatus call leaves the document and emits
\* the alerts that the one transition gives for the document it started from
\* and the status it was given, whether the cycle called it with the probe's
\* status or the edge-update handler with the reported status.
C18_SameTransition ==
    /\ Completed =>
          /\ Fields(doc) = Apply(pre, cur, at)
          /\ emitted = Emits(pre, cur, at)
    /\ Reported =>
          /\ Fields(p2.doc) = Apply(p2.pre, p2.cur, p2.at)
          /\ p2.emitted = Emits(p2.pre, p2.cur, p2.at)

\* C18 witness: the cycle and an edge-update request have each completed a
\* call with the same status on documents with the same fields, and each has
\* emitted the down alert.
C18_Witness ==
    /\ Completed /\ Reported
    /\ Fields(pre) = Fields(p2.pre) /\ cur = p2.cur
    /\ emitted = <<"down">> /\ p2.emitted = <<"down">>

\* C19: an edge-update request whose name no monitor has is answered 404
\* (unless the lookup itself fails), and neither that step nor the rest of
\* the request changes a stored monitor or hands an alert to the transport.
C19_UnknownNameIs404 ==
    [][ /\ ( /\ p2.kind = "none" /\ p2'.kind = "report"
             /\ \A id \in exists : NameOf(id) # p2'.name
             /\ p2'.outcome # "error" )
            => /\ p2'.res = 404 /\ p2'.pc = "done" /\ p2'.doc = Blank
               /\ store' = store /\ alerts' = alerts
        /\ (p2.res = 404 /\ p2' # p2)
            => /\ p2' = Idle2
               /\ store' = store /\ alerts' = alerts ]_vars

\* C19 witness: a report on "ghost" has been answered 404.
C19_Witness ==
    p2.kind = "report" /\ p2.name = "ghost" /\ p2.res = 404

\* C20: the cycle never takes up "slpost", which is in the exclusion list,
\* and the stored document of "slpost" changes only in a step of an
\* edge-update request on it.
C20_ExcludedOnlyByReports ==
    /\ [](NameOf(doc.id) # "slpost" /\ NameOf(base.id) # "slpost")
    /\ [][ \A id \in MonIds :
              (NameOf(id) = "slpost" /\ store'[id] # store[id])
                  => /\ p2.kind = "report" /\ p2.doc.id = id
                     /\ pc' = pc /\ doc' = doc ]_vars

\* C20 witness: the cycle has passed over "slpost", whose stored document an
\* edge-update request has changed.
C20_Witness ==
    /\ pc = "loop" /\ outcome = "skipped"
    /\ Persisted(2) /\ store[2] # Outage(2)

\* C21: whatever cycles and edge-update reports have run, and whatever
\* status value a report carried, the stored status of every monitor is one
\* of unknown, up, down.
C21_StatusInThree ==
    \A id \in exists : store[id].status \in {"unknown", "up", "down"}


\* C22: the probe of the loop with the TCP fallback always ends with up or
\* down, never with an error; it is up exactly when the HTTP request
\* succeeded or, the HTTP request having failed, the TCP connect succeeded;
\* the TCP connect is tried only after the HTTP request failed.
C22_UpIffHttpOrTcp ==
    /\ probe.pc \in {"idle", "http", "tcp", "done"}
    /\ (probe.pc = "done" /\ probe.kind = "fallback") =>
          /\ probe.result \in {"up", "down"}
          /\ probe.result = "up" <=>
                (AxiosResolves(probe.resp) \/ probe.tcp = "connect")
          /\ probe.tcp # "none" => ~AxiosResolves(probe.resp)

\* C22 witness: the HTTP request failed on a 5xx answer, the TCP connect
\* succeeded and the probe ended up.
C22_Witness ==
    /\ probe.pc = "done"
    /\ probe.kind = "fallback"
    /\ probe.resp = "5xx"
    /\ probe.tcp = "connect"
    /\ probe.result = "up"

\* C23: a probe ends down only after a transport-level failure: no HTTP
\* response at all, or a TCP connect that failed.  A target that answered
\* with any status code is not marked down for that.
C23_DownOnlyOnTransportFailure ==
    (probe.pc = "done" /\ probe.result = "down") =>
        \/ probe.resp = "none"
        \/ probe.tcp \in {"error", "timeout", "badurl"}

\* The addresses of a list of subscribers.
Addresses(list) == {list[i] : i \in DOMAIN list}

\* C24: no address is ever held by two subscribers, and a subscribe request
\* answered 200 leaves the collection as it was when the address was already
\* there, and else adds that one address after the others, which stay as
\* they were.
C24_SubscribeIdempotent ==
    /\ \A i, j \in DOMAIN subscribers : subscribers[i] = subscribers[j] => i = j
    /\ (reply.route = "subscribe" /\ reply.status = 200) =>
          reply.after = IF reply.body.text \in Addresses(reply.before)
                        THEN reply.before
                        ELSE Append(reply.before, reply.body.text)

\* C24 witness: an address that was subscribed already has been subscribed
\* again, with answer 200.
C24_Witness ==
    /\ reply.route = "subscribe"
    /\ reply.status = 200
    /\ reply.body.text \in Addresses(reply.before)
    /\ reply.after = reply.before

\* C25: a subscribe request whose body has no email, or an email without
\* '@', is answered 400 and the subscribers stay as they were.
C25_InvalidIs400 ==
    (reply.route = "subscribe"
        /\ (reply.body.kind = "absent" \/ ~IncludesAt(reply.body))) =>
        /\ reply.status = 400
        /\ reply.after = reply.before

\* C26: the step that creates a monitor leaves it with status unknown, an
\* empty history, alertSent false and no downSince, and hands no alert to
\* the mail transport.
C26_CreatedFresh ==
    [][\A id \in MonIds :
          (id \notin exists /\ id \in exists') =>
              /\ store'[id].status = "unknown"
              /\ store'[id].history = <<>>
              /\ ~store'[id].alertSent
              /\ store'[id].downSince = NoDate
              /\ alerts' = alerts
              /\ emitted' = emitted
              /\ mail' = mail]_vars

\* C26 witness: "slpost" has been created and no cycle has reached it yet.
C26_Witness ==
    /\ nextId > 2
    /\ Persisted(2)
    /\ store[2].status = "unknown"
    /\ store[2].history = <<>>
    /\ ~store[2].alertSent
    /\ store[2].downSince = NoDate

\* C27: the call in which the status changes to down emits no alert, sets
\* no alert flag and is not on its way to a down alert; the call in which a
\* monitor that was down without an alert comes back up emits no alert and
\* leaves alertSent false.
C27_NoAlertOnTransition ==
    /\ (Probed /\ cur = "down" /\ pre.status # "down") =>
          /\ emitted = <<>>
          /\ pc \notin {"saveFlag", "sendDown"}
          /\ ~doc.alertSent
    /\ (Probed /\ cur = "up" /\ pre.status = "down" /\ ~pre.alertSent) =>
          /\ emitted = <<>>
          /\ pc # "sendUp"
          /\ ~doc.alertSent

\* C28: a completed call whose status differs from the stored one has
\* appended the one entry (status, now), the oldest entry making room when
\* the history was full, and has set the status; a completed call with the
\* stored status has left status and history as they were; no two adjacent
\* entries of a stored history carry the same status.
C28_HistoryOnChangeOnly ==
    /\ (Completed /\ pre.status # cur) =>
          LET h1 == Append(pre.history, [status |-> cur, timestamp |-> at])
          IN  /\ doc.history \in {h1, Tail(h1)}
              /\ doc.status = cur
    /\ (Completed /\ pre.status = cur) =>
          /\ doc.history = pre.history
          /\ doc.status = pre.status
    /\ \A id \in exists :
          \A i \in 1..(Len(store[id].history) - 1) :
              store[id].history[i].status # store[id].history[i + 1].status

\* "alpha" is stored in an outage that began at t, with no alert yet.
InOutage(t) ==
    /\ Persisted(1)
    /\ store[1].status = "down"
    /\ store[1].downSince = t
    /\ ~store[1].alertSent

\* A down alert for the outage of "alpha" that began at t has been handed to
\* the mail transport.
Dispatched(t) ==
    \E i \in DOMAIN alerts :
        alerts[i].mon = 1 /\ alerts[i].dir = "down" /\ alerts[i].since = t

\* The outage of "alpha" that began at t is over: the monitor is deleted,
\* or stored with another status or another downSince.
Ended(t) ==
    \/ ~Persisted(1)
    \/ store[1].status # "down"
    \/ store[1].downSince # t

\* No operation of the cycle has just failed: Monitor.find, a save, or the
\* subscriber lookup of sendAlert.
Healthy ==
    /\ pc # "rejected"
    /\ outcome \notin {"error", "alert", "deleted"}

\* A recovered alert for "alpha" has been handed to the mail transport.
Recovered ==
    \E i \in DOMAIN alerts : alerts[i].mon = 1 /\ alerts[i].dir = "up"

C31_FirstResultIsChange ==
    (Probed /\ pre.status = "unknown") =>
        /\ doc.status = cur
        /\ doc.history = Append(pre.history, [status |-> cur, timestamp |-> at])
        /\ emitted = <<>>
        /\ cur = "down" =>
              /\ doc.downSince = at
              /\ ~doc.alertSent
              /\ pc \notin {"saveFlag", "sendDown"}
        /\ cur = "up" =>
              /\ doc.downSince = NoDate
              /\ pc # "sendUp"

\* C32: however a cycle and edge-update requests on the same monitor
\* interleave, no stored document has status up together with alertSent
\* true.
C32_StoredUpNotAlerted ==
    \A id \in exists : ~(store[id].status = "up" /\ store[id].alertSent)

\* C33: every completed call has set lastChecked to the time at which it
\* reached that assignment, which lies between the probe and the present,
\* and has stored it: with or without a status change, with or without an
\* alert.
C33_LastCheckedSet ==
    Completed =>
        /\ doc.lastChecked >= at
        /\ doc.lastChecked <= now
        /\ Persisted(doc.id) => store[doc.id].lastChecked = doc.lastChecked

\* C33 witness: a completed call that left the status as it was and sent
\* the down alert has set and stored lastChecked.
C33_Witness ==
    /\ Completed
    /\ pre.status = cur
    /\ emitted = <<"down">>
    /\ doc.lastChecked = now
    /\ doc.lastChecked # pre.lastChecked
    /\ Persisted(doc.id)
    /\ store[doc.id].lastChecked = now

\* C34: no sub-probe waits longer than its timeout; every probe that has
\* started ends, with up or down, whatever its target does; and the loop
\* then goes on to its next monitor.
C34_ProbeTerminates ==
    /\ [](probe.pc = "http" => probe.elapsed <= AxiosTimeout(probe.kind))
    /\ [](probe.pc = "tcp" => probe.elapsed <= TCP_TIMEOUT)
    /\ [](probe.pc = "done" => probe.result \in {"up", "down"})
    /\ (probe.pc \in {"http", "tcp"}) ~> (probe.pc = "done")
    /\ (probe.pc = "done") ~> (probe.pc = "idle")

\* C34 witness: a target that never answers has been probed; the HTTP
\* request and then the TCP connect timed out, and the probe ended down.
C34_Witness ==
    /\ probe.pc = "done"
    /\ probe.kind = "fallback"
    /\ probe.url.valid
    /\ probe.target = "silent"
    /\ probe.resp = "none"
    /\ probe.tcp = "timeout"
    /\ probe.elapsed = TCP_TIMEOUT
    /\ probe.result = "down"

\* C35: when a sendAlert that picks a key per subscriber returns, every
\* subscriber of its list that has a key has had exactly one send attempt
\* and every subscriber without one has had none; and sendAlert throws only
\* when loading the list failed, before any subscriber was visited.
C35_UnmappedSkippedOnly ==
    mail.mailer \in {"keys", "default"} =>
        /\ mail.pc = "returned" =>
              \A i \in DOMAIN mail.list :
                  mail.attempts[mail.list[i]] =
                      IF mail.mailer = "keys" /\ mail.list[i] \notin EMAIL_KEYS
                      THEN 0 ELSE 1
        /\ mail.pc = "thrown" =>
              /\ mail.list = <<>>
              /\ \A r \in Recipients : mail.attempts[r] = 0

\* C35 witness: sendAlert has returned after skipping a subscriber without
\* a key that stood first in its list, and attempting the one after it.
C35_Witness ==
    /\ mail.mailer = "keys"
    /\ mail.pc = "returned"
    /\ Len(mail.list) >= 2
    /\ mail.list[1] \notin EMAIL_KEYS
    /\ mail.attempts[mail.list[1]] = 0
    /\ mail.list[2] \in EMAIL_KEYS
    /\ mail.attempts[mail.list[2]] = 1

\* C36: with the cycle as the only writer, the alerts handed to the mail
\* transport for one monitor alternate, beginning with a down alert: the
\* first is a down alert, and each later one has the other direction than
\* the one before it.
C36_AlertsAlternate ==
    \A i \in DOMAIN alerts :
        LET before == {j \in 1..(i - 1) : alerts[j].mon = alerts[i].mon}
        IN  IF before = {}
            THEN alerts[i].dir = "down"
            ELSE LET last == CHOOSE j \in before : \A k \in before : k <= j
                 IN  alerts[last].dir # alerts[i].dir

\* C37: a call with status down on a monitor that is down already leaves
\* downSince as it found it, at every point of the call, and the document
\* it stores carries that same downSince.
C37_DownSinceKept ==
    (Probed /\ cur = "down" /\ pre.status = "down") =>
        /\ doc.downSince = pre.downSince
        /\ (Completed /\ Persisted(doc.id)) =>
              store[doc.id].downSince = pre.downSince

\* C37 witness: a completed call, two or more minutes into an outage, that
\* found the monitor down and left downSince at the start of the outage.
C37_Witness ==
    /\ Completed
    /\ cur = "down"
    /\ pre.status = "down"
    /\ at - pre.downSince >= THRESHOLD
    /\ doc.downSince = pre.downSince
    /\ Persisted(doc.id)
    /\ store[doc.id].downSince = pre.downSince

\* C38: no alert for a monitor is handed to the mail transport once the
\* monitor is deleted, also when a call still holds it: every alert was
\* dispatched while its monitor was in the collection.  (A save never puts
\* a deleted monitor back: it rejects.)
C38_DeletedStaysSilent ==
    \A i \in DOMAIN alerts : alerts[i].live

\* C39: an edge-update request whose status is neither up nor down emits no
\* alert, is not on its way to a recovered alert, and leaves downSince as it
\* found it.
C39_OnlyUpRecovers ==
    (p2.kind = "report" /\ p2.cur \notin {"up", "down", "none"} /\ p2.res # 404) =>
        /\ p2.emitted = <<>>
        /\ p2.pc # "sendUp"
        /\ p2.doc.downSince = p2.pre.downSince

=============================================================================
